---- MODULE Spec2Model ----
(***************************************************************************)
(* Model of the email -> calendar pipeline of src/src/index.ts.            *)
(*                                                                         *)
(* index.ts holds two editions of the worker:                              *)
(*   version 1 (lines 1-352):   zone-qualified generateICS, log-only send  *)
(*   version 2 (lines 354-658): UTC generateICS, env.MAIL.send transport   *)
(* Both are modelled; the variable `version` says which one is running.    *)
(*                                                                         *)
(* Text is a sequence of tokens.  The characters the code inspects         *)
(* (backslash, newline, ';', ',', '-', ':', '+', 'Z') are always tokens of *)
(* their own; any other token stands for a run of ordinary characters.     *)
(***************************************************************************)
EXTENDS Integers, Sequences, FiniteSets, TLC

VARIABLES
    version,        \* 1 or 2: which edition of index.ts is deployed
    mailConfigured, \* env.MAIL && env.MAIL.send is truthy
    now,            \* the clock read by new Date()
    pc,             \* position of the email handler
    aiJson,         \* text returned by aiResponse.text()
    events,         \* the local `events` of email()
    idx,            \* index of the next record generateICS will render
    lines,          \* generateICS: the lines / event blocks built so far
    usedUids,       \* identifiers already handed out by generateUID
    icsContent,     \* the local `icsContent` of email()
    extractionDone, \* env.AI.run and aiResponse.text() both completed
    generateCalls,  \* number of invocations of generateICS
    sendCalls,      \* number of invocations of the transport send
    sendFailures,   \* number of transport sends that threw
    thrown,         \* the positions at which an exception was raised
    outcome,        \* "running", "returned" or "escaped"
    escIn,          \* escapeICSText study: the input text
    escOut,         \* escapeICSText study: the outputs of both editions
    escPc,          \* escapeICSText study: position
    fmtIn,          \* formatDateTimeICS study: the input string
    fmtOut,         \* formatDateTimeICS study: the output
    fmtPc,          \* formatDateTimeICS study: position
    envBody,        \* sendEmailWithICS study: options.body
    envIcs,         \* sendEmailWithICS study: options.ics
    envBoundary,    \* sendEmailWithICS study: the local `boundary`
    envMessage,     \* sendEmailWithICS study: the lines of the raw message
    envPc           \* sendEmailWithICS study: position

vars == << version, mailConfigured, now, pc, aiJson, events, idx, lines,
           usedUids, icsContent, extractionDone, generateCalls, sendCalls,
           sendFailures, thrown, outcome, escIn, escOut, escPc,
           fmtIn, fmtOut, fmtPc, envBody, envIcs, envBoundary, envMessage,
           envPc >>

pipeVars == << version, mailConfigured, now, pc, aiJson, events, idx, lines,
               usedUids, icsContent, extractionDone, generateCalls,
               sendCalls, sendFailures, thrown, outcome >>

escVars == << escIn, escOut, escPc >>

fmtVars == << fmtIn, fmtOut, fmtPc >>

envVars == << envBody, envIcs, envBoundary, envMessage, envPc >>

-----------------------------------------------------------------------------
(* Bounds *)

MaxEvents == 2
MaxLen == 3
MaxPartLen == 2

-----------------------------------------------------------------------------
(* Text helpers *)

BS == "\\"
NL == "\n"

\* String.prototype.replace(/c/g, rep) on a token sequence
RECURSIVE ReplaceAll(_, _, _)
ReplaceAll(s, ch, rep) ==
    IF s = << >> THEN << >>
    ELSE (IF Head(s) = ch THEN rep ELSE << Head(s) >>)
             \o ReplaceAll(Tail(s), ch, rep)

\* a bug-seeded escapeICSText: the backslash pass runs last
escapeICSText2_BackslashLast(text) ==
    ReplaceAll(
      ReplaceAll(
        ReplaceAll(
          ReplaceAll(text, NL, << BS, "n" >>),
          ",", << BS, "," >>),
        ";", << BS, ";" >>),
      BS, << BS, BS >>)

\* escapeICSText, version 2 (backslash, newline, comma, semicolon)
escapeICSText2(text) ==
    ReplaceAll(
      ReplaceAll(
        ReplaceAll(
          ReplaceAll(text, BS, << BS, BS >>),
          NL, << BS, "n" >>),
        ",", << BS, "," >>),
      ";", << BS, ";" >>)

\* escapeICSText, version 1 (backslash, newline, semicolon, comma)
escapeICSText1(text) ==
    ReplaceAll(
      ReplaceAll(
        ReplaceAll(
          ReplaceAll(text, BS, << BS, BS >>),
          NL, << BS, "n" >>),
        ";", << BS, ";" >>),
      ",", << BS, "," >>)

-----------------------------------------------------------------------------
(* Date strings, character by character *)

Digits == << "0", "1", "2", "3", "4", "5", "6", "7", "8", "9" >>

IsDigit(c) == \E i \in 1..10 : Digits[i] = c

DigitVal(c) == (CHOOSE i \in 1..10 : Digits[i] = c) - 1

\* Number.prototype.toString for a natural number
RECURSIVE NatToStr(_)
NatToStr(n) ==
    IF n < 10 THEN << Digits[n + 1] >>
    ELSE NatToStr(n \div 10) \o << Digits[(n % 10) + 1] >>

\* the text of NaN.toString()
NaNStr == << "N", "a", "N" >>

\* pad = (num) => num.toString().padStart(2, "0"); NaN is given as -1
pad(num) ==
    IF num < 0 THEN NaNStr
    ELSE IF num < 10 THEN << "0" >> \o NatToStr(num)
    ELSE NatToStr(num)

\* String.prototype.split(ch)[0]
RECURSIVE SplitFirst(_, _)
SplitFirst(s, ch) ==
    IF s = << >> \/ Head(s) = ch THEN << >>
    ELSE << Head(s) >> \o SplitFirst(Tail(s), ch)

\* formatDateTimeICS (version 1), for a string argument
formatDateTimeICS(dt) ==
    SplitFirst(SplitFirst(
        ReplaceAll(ReplaceAll(dt, "-", << >>), ":", << >>),
        "+"), "Z")

\* two decimal digits at positions i, i+1 of s
Num2(s, i) == DigitVal(s[i]) * 10 + DigitVal(s[i + 1])

Num4(s, i) == Num2(s, i) * 100 + Num2(s, i + 2)

AllDigits(s, from, to) == \A i \in from..to : IsDigit(s[i])

\* the ISO-8601 date-time shape new Date(string) accepts:
\* YYYY-MM-DDTHH:MM:SS[.mmm][Z|+HH:MM|-HH:MM]
HasFraction(s) ==
    Len(s) >= 23 /\ s[20] = "." /\ AllDigits(s, 21, 23)

SuffixStart(s) == IF HasFraction(s) THEN 24 ELSE 20

IsoCore(s) ==
    /\ Len(s) >= 19
    /\ AllDigits(s, 1, 4) /\ s[5] = "-" /\ AllDigits(s, 6, 7)
    /\ s[8] = "-" /\ AllDigits(s, 9, 10) /\ s[11] = "T"
    /\ AllDigits(s, 12, 13) /\ s[14] = ":" /\ AllDigits(s, 15, 16)
    /\ s[17] = ":" /\ AllDigits(s, 18, 19)
    /\ Num2(s, 6) \in 1..12 /\ Num2(s, 9) \in 1..31
    /\ Num2(s, 12) \in 0..23 /\ Num2(s, 15) \in 0..59
    /\ Num2(s, 18) \in 0..59

IsoSuffix(s) ==
    LET k == SuffixStart(s)
    IN  \/ Len(s) = k - 1
        \/ Len(s) = k /\ s[k] = "Z"
        \/ /\ Len(s) = k + 5
           /\ s[k] \in {"+", "-"}
           /\ AllDigits(s, k + 1, k + 2) /\ s[k + 3] = ":"
           /\ AllDigits(s, k + 4, k + 5)
           /\ Num2(s, k + 1) \in 0..23 /\ Num2(s, k + 4) \in 0..59

IsIsoDateTime(s) == IsoCore(s) /\ IsoSuffix(s)

\* minutes east of UTC named by the suffix (none: the runtime's zone, UTC)
OffsetMinutes(s) ==
    LET k == SuffixStart(s)
    IN  IF Len(s) = k + 5
        THEN (IF s[k] = "+" THEN 1 ELSE -1)
                 * (Num2(s, k + 1) * 60 + Num2(s, k + 4))
        ELSE 0

\* days since 1970-01-01 of a civil date
DaysFromCivil(y0, m, d) ==
    LET y   == IF m <= 2 THEN y0 - 1 ELSE y0
        era == y \div 400
        yoe == y - era * 400
        doy == (153 * (IF m > 2 THEN m - 3 ELSE m + 9) + 2) \div 5 + d - 1
        doe == yoe * 365 + yoe \div 4 - yoe \div 100 + doy
    IN  era * 146097 + doe - 719468

\* civil date of a day number
CivilFromDays(z0) ==
    LET z   == z0 + 719468
        era == z \div 146097
        doe == z - era * 146097
        yoe == (doe - doe \div 1460 + doe \div 36524 - doe \div 146096)
                   \div 365
        doy == doe - (365 * yoe + yoe \div 4 - yoe \div 100)
        mp  == (5 * doy + 2) \div 153
        d   == doy - (153 * mp + 2) \div 5 + 1
        m   == IF mp < 10 THEN mp + 3 ELSE mp - 9
        y   == yoe + era * 400 + (IF m <= 2 THEN 1 ELSE 0)
    IN  [year |-> y, month |-> m, day |-> d]

\* a Date value: valid with its UTC fields, or Invalid Date
InvalidDate ==
    [valid |-> FALSE, year |-> -1, month |-> -1, day |-> -1,
     hours |-> -1, minutes |-> -1, seconds |-> -1]

DateFromMinutes(total, secs) ==
    LET c == CivilFromDays(total \div 1440)
    IN  [valid |-> TRUE, year |-> c.year, month |-> c.month, day |-> c.day,
         hours |-> (total % 1440) \div 60, minutes |-> total % 60,
         seconds |-> secs]

\* new Date(x) for x a string (kind "str") or a number of ms (kind "num")
NewDate(x) ==
    IF x.kind = "num"
    THEN DateFromMinutes(x.n \div 60000, (x.n \div 1000) % 60)
    ELSE IF x.kind = "str" /\ IsIsoDateTime(x.v)
    THEN DateFromMinutes(
             DaysFromCivil(Num4(x.v, 1), Num2(x.v, 6), Num2(x.v, 9)) * 1440
               + Num2(x.v, 12) * 60 + Num2(x.v, 15) - OffsetMinutes(x.v),
             Num2(x.v, 18))
    ELSE InvalidDate

\* a bug-seeded formatDateTimeToICS that forgets the trailing Z
formatDateTimeToICS_NoZ(x) ==
    LET date == NewDate(x)
    IN  (IF date.valid THEN NatToStr(date.year) ELSE NaNStr)
          \o pad(date.month) \o pad(date.day) \o << "T" >>
          \o pad(date.hours) \o pad(date.minutes) \o pad(date.seconds)

\* formatDateTimeToICS (version 2)
formatDateTimeToICS(x) ==
    LET date == NewDate(x)
    IN  (IF date.valid THEN NatToStr(date.year) ELSE NaNStr)
          \o pad(date.month) \o pad(date.day) \o << "T" >>
          \o pad(date.hours) \o pad(date.minutes) \o pad(date.seconds)
          \o << "Z" >>

-----------------------------------------------------------------------------
(* JSON values as the extraction returns them *)

\* an optional text field: absent (undefined) or a string
Absent == [has |-> FALSE, v |-> << >>]

Str(t) == [has |-> TRUE, v |-> t]

\* JavaScript truthiness of an optional text field ("" is falsy)
Truthy(f) == f.has /\ f.v # << >>

\* f || dflt
OrElse(f, dflt) == IF Truthy(f) THEN f.v ELSE dflt

\* a start / end field: absent, a string, or a number
NoDate == [kind |-> "absent", v |-> << >>, n |-> 0]

DateStr(t) == [kind |-> "str", v |-> t, n |-> 0]

DateNum(k) == [kind |-> "num", v |-> << >>, n |-> k]

DateTruthy(d) ==
    \/ d.kind = "str" /\ d.v # << >>
    \/ d.kind = "num" /\ d.n # 0

\* the attendees field: not an array, or an array of entries
NoAttendees == [isArray |-> FALSE, v |-> << >>]

AttArray(a) == [isArray |-> TRUE, v |-> a]

Att(name, email) == [kind |-> "obj", name |-> name, email |-> email]

NullAtt == [kind |-> "null", name |-> Absent, email |-> Absent]

\* const ATTENDEES
ATTENDEES ==
    << [name |-> << "Storm Ellis" >>,
        email |-> << "storm.ellis@hutchins.tas.edu.au" >>] >>

EmptyObj ==
    [kind |-> "obj", title |-> Absent, start |-> NoDate, end |-> NoDate,
     location |-> Absent, description |-> Absent, avLoc |-> Absent,
     avReq |-> Absent, brief |-> Absent, other |-> Absent,
     attendees |-> NoAttendees]

\* the array elements null and 5
NullElem == [EmptyObj EXCEPT !.kind = "null"]

NumElem == [EmptyObj EXCEPT !.kind = "num"]

-----------------------------------------------------------------------------
(* Content lines *)

Line(prop, params, cn, value) ==
    [prop |-> prop, params |-> params, cn |-> cn, value |-> value]

Plain(prop, value) == Line(prop, << >>, << >>, value)

Marker(prop) == Line(prop, << >>, << >>, << >>)

Ok(ls) == [ok |-> TRUE, lines |-> ls]

Throws == [ok |-> FALSE, lines |-> << >>]

\* Map.prototype.set on an insertion-ordered map kept as a sequence
MapSet(m, email, name) ==
    IF \E i \in 1..Len(m) : m[i].email = email
    THEN [i \in 1..Len(m) |->
             IF m[i].email = email
             THEN [email |-> email, name |-> name] ELSE m[i]]
    ELSE Append(m, [email |-> email, name |-> name])

\* version 2, lines 551-557: the explicit attendees enter the map
RECURSIVE SetExplicit(_, _)
SetExplicit(m, atts) ==
    IF atts = << >> THEN [ok |-> TRUE, map |-> m]
    ELSE IF Head(atts).kind = "null" THEN [ok |-> FALSE, map |-> m]
    ELSE SetExplicit(
             IF Truthy(Head(atts).email) /\ Truthy(Head(atts).name)
             THEN MapSet(m, Head(atts).email.v, Head(atts).name.v)
             ELSE m,
             Tail(atts))

\* version 2, lines 559-561: the fixed attendees enter the map
RECURSIVE SetFixed(_, _)
SetFixed(m, fixed) ==
    IF fixed = << >> THEN m
    ELSE SetFixed(MapSet(m, Head(fixed).email, Head(fixed).name),
                  Tail(fixed))

\* version 2, lines 563-567
AttendeeLine2(entry) ==
    Line("ATTENDEE",
         << "RSVP=FALSE", "PARTSTAT=NEEDS-ACTION", "CUTYPE=INDIVIDUAL" >>,
         escapeICSText2(entry.name),
         << "mailto:" >> \o entry.email)

\* version 2, lines 535-544
Description2(event) ==
    escapeICSText2(
        << "AV Support request location: " >> \o OrElse(event.avLoc, << >>)
        \o << NL, "AV Support requirements: " >>
        \o OrElse(event.avReq, << >>)
        \o << NL, "Brief description: " >> \o OrElse(event.brief, << >>)
        \o << NL, "Other: " >> \o OrElse(event.other, << >>)
        \o << NL, "Description: " >> \o OrElse(event.description, << >>))

\* version 2, lines 570-574
Valarm2 ==
    << Marker("BEGIN:VALARM"), Plain("TRIGGER", << "-PT30M" >>),
       Plain("DESCRIPTION", << "Reminder" >>),
       Plain("ACTION", << "DISPLAY" >>), Marker("END:VALARM") >>

\* version 2: the body of the for loop of generateICS, lines 518-577
RenderEvent2(event, uid, clock) ==
    IF event.kind = "null" THEN Throws
    ELSE
      LET merged == SetExplicit(<< >>,
                        IF event.attendees.isArray
                        THEN event.attendees.v ELSE << >>)
          all == SetFixed(merged.map, ATTENDEES)
      IN  IF ~merged.ok THEN Throws
          ELSE Ok(
            << Marker("BEGIN:VEVENT"),
               Plain("UID", << uid, "@hutchins.tas.edu.au" >>),
               Plain("DTSTAMP", formatDateTimeToICS(DateStr(clock.iso))) >>
            \o (IF DateTruthy(event.start)
                THEN << Plain("DTSTART", formatDateTimeToICS(event.start)) >>
                ELSE << >>)
            \o (IF DateTruthy(event.end)
                THEN << Plain("DTEND", formatDateTimeToICS(event.end)) >>
                ELSE << >>)
            \o << Plain("LOCATION",
                        IF Truthy(event.location)
                        THEN escapeICSText2(event.location.v) ELSE << >>),
                  Plain("DESCRIPTION", Description2(event)),
                  Plain("SUMMARY",
                        escapeICSText2(OrElse(event.title, << "No Title" >>)))
               >>
            \o [i \in 1..Len(all) |-> AttendeeLine2(all[i])]
            \o Valarm2
            \o << Marker("END:VEVENT") >>)

\* version 1, lines 239-240 and 245-246
AttendeeLine1(name, email) ==
    Line("ATTENDEE",
         << "RSVP=TRUE", "PARTSTAT=NEEDS-ACTION", "ROLE=REQ-PARTICIPANT",
            "CUTYPE=INDIVIDUAL", "X-NUM-GUESTS=0", "RSVP=FALSE",
            "PARTSTAT=NEEDS-ACTION", "X-ATTENDEE-OPTIONAL=TRUE" >>,
         escapeICSText1(name),
         << "mailto:" >> \o email)

\* version 1, lines 236-248: att.name of null and escapeICSText(undefined)
\* throw; an absent email prints as the text undefined
AttendeesThrow1(event) ==
    /\ event.attendees.isArray
    /\ \E i \in 1..Len(event.attendees.v) :
           \/ event.attendees.v[i].kind = "null"
           \/ ~event.attendees.v[i].name.has

AttendeeLines1(event) ==
    IF event.attendees.isArray /\ Len(event.attendees.v) > 0
    THEN [i \in 1..Len(event.attendees.v) |->
             AttendeeLine1(event.attendees.v[i].name.v,
                           IF event.attendees.v[i].email.has
                           THEN event.attendees.v[i].email.v
                           ELSE << "undefined" >>)]
    ELSE [i \in 1..Len(ATTENDEES) |->
             AttendeeLine1(ATTENDEES[i].name, ATTENDEES[i].email)]

\* version 1, lines 226-232
Description1(event) ==
    << "AV Support request location: " >>
    \o escapeICSText1(OrElse(event.avLoc, OrElse(event.location, << >>)))
    \o << BS, "n", "AV Support requirements: " >>
    \o escapeICSText1(OrElse(event.avReq, << >>))
    \o << BS, "n", "Brief description: " >>
    \o escapeICSText1(OrElse(event.brief,
           OrElse(event.description, OrElse(event.title, << >>))))
    \o << BS, "n", "Other: " >>
    \o escapeICSText1(OrElse(event.other, << >>))

\* version 1, lines 259-263
Valarm1 ==
    << Marker("BEGIN:VALARM"), Plain("TRIGGER", << "-PT30M" >>),
       Plain("ACTION", << "DISPLAY" >>),
       Plain("DESCRIPTION", << "Reminder" >>), Marker("END:VALARM") >>

\* version 1, line 195
Dtstamp1(clock) ==
    SplitFirst(ReplaceAll(ReplaceAll(clock.iso, "-", << >>), ":", << >>),
               ".")
    \o << "Z" >>

TzParam == << "TZID=Australia/Hobart" >>

\* version 1: the callback of events.map in generateICS, lines 218-265
RenderEvent1(event, index, clock) ==
    IF \/ event.kind = "null"
       \/ event.start.kind # "str" \/ event.end.kind # "str"
       \/ AttendeesThrow1(event)
    THEN Throws
    ELSE Ok(
      << Marker("BEGIN:VEVENT"),
         Plain("UID", << "event-" >> \o clock.ms \o << "-" >>
                        \o NatToStr(index) \o << "@streamlink.stream" >>),
         Plain("DTSTAMP", Dtstamp1(clock)),
         Plain("SUMMARY",
               escapeICSText1(OrElse(event.title, << "No Title" >>))),
         Line("DTSTART", TzParam, << >>, formatDateTimeICS(event.start.v)),
         Line("DTEND", TzParam, << >>, formatDateTimeICS(event.end.v)),
         Plain("LOCATION", escapeICSText1(OrElse(event.location, << >>))),
         Plain("DESCRIPTION", Description1(event)) >>
      \o AttendeeLines1(event)
      \o Valarm1
      \o << Marker("END:VEVENT") >>)

\* version 1, lines 198-215
timezoneBlock ==
    << Marker("BEGIN:VTIMEZONE"),
       Plain("TZID", << "Australia/Hobart" >>),
       Plain("X-LIC-LOCATION", << "Australia/Hobart" >>),
       Marker("BEGIN:STANDARD"),
       Plain("TZOFFSETFROM", << "+1100" >>),
       Plain("TZOFFSETTO", << "+1000" >>),
       Plain("TZNAME", << "AEST" >>),
       Plain("DTSTART", << "19700405T030000" >>),
       Plain("RRULE", << "FREQ=YEARLY;BYMONTH=4;BYDAY=1SU" >>),
       Marker("END:STANDARD"),
       Marker("BEGIN:DAYLIGHT"),
       Plain("TZOFFSETFROM", << "+1000" >>),
       Plain("TZOFFSETTO", << "+1100" >>),
       Plain("TZNAME", << "AEDT" >>),
       Plain("DTSTART", << "19701004T020000" >>),
       Plain("RRULE", << "FREQ=YEARLY;BYMONTH=10;BYDAY=1SU" >>),
       Marker("END:DAYLIGHT"),
       Marker("END:VTIMEZONE") >>

\* version 1, lines 268-275
Header1 ==
    << Marker("BEGIN:VCALENDAR"), Plain("VERSION", << "2.0" >>),
       Plain("PRODID", << "-//Streamlink//LLM AV Calendar//EN" >>),
       Plain("CALSCALE", << "GREGORIAN" >>),
       Plain("METHOD", << "PUBLISH" >>) >>
    \o timezoneBlock

\* version 2, lines 509-516
Header2 ==
    << Marker("BEGIN:VCALENDAR"), Plain("VERSION", << "2.0" >>),
       Plain("PRODID", << "-//Hutchins LLM Chat Worker//EN" >>),
       Plain("CALSCALE", << "GREGORIAN" >>) >>

Footer == << Marker("END:VCALENDAR") >>

-----------------------------------------------------------------------------
(* Sampled inputs *)

D_June8 ==
    << "2", "0", "2", "5", "-", "0", "6", "-", "3", "0", "T", "0", "8", ":",
       "0", "0", ":", "0", "0", "+", "1", "0", ":", "0", "0" >>

D_June12 ==
    << "2", "0", "2", "5", "-", "0", "6", "-", "3", "0", "T", "1", "2", ":",
       "0", "0", ":", "0", "0", "+", "1", "0", ":", "0", "0" >>

D_OctZ ==
    << "2", "0", "2", "5", "-", "1", "0", "-", "0", "5", "T", "0", "1", ":",
       "3", "0", ":", "0", "0", "Z" >>

D_Bad == << "tomorrow" >>

\* the instants new Date() and Date.now() can return
Clocks ==
    { [iso |-> << "2", "0", "2", "5", "-", "0", "6", "-", "2", "9", "T",
                  "2", "3", ":", "3", "0", ":", "0", "0", ".", "0", "0",
                  "0", "Z" >>,
       ms |-> << "1", "7", "5", "1", "2", "3", "9", "8", "0", "0", "0",
                 "0", "0" >>] }

\* the values crypto.randomUUID() can return
UUIDs == { "uuid-a", "uuid-b", "uuid-c" }

FixedEmail == << "storm.ellis@hutchins.tas.edu.au" >>

Soundcheck ==
    [EmptyObj EXCEPT
        !.title = Str(<< "Soundcheck" >>),
        !.start = DateStr(D_June8), !.end = DateStr(D_June12),
        !.location = Str(<< "Auditorium" >>),
        !.description = Str(<< "Soundcheck session", ",", " mid year" >>),
        !.avReq = Str(<< "Lectern microphone", ",", " stage lighting" >>),
        !.attendees = AttArray(<< Att(Str(<< "A" >>), Str(<< "a@x.com" >>))
                                >>)]

Records ==
    { Soundcheck,
      \* a title with all four special characters, no attendees
      [EmptyObj EXCEPT
          !.title = Str(<< "Setup", ";", ",", BS, NL, "x" >>),
          !.start = DateStr(D_OctZ), !.end = DateStr(D_OctZ),
          !.other = Str(<< "bring", ";", "cables" >>)],
      \* an explicit attendee with the fixed attendee's address
      [Soundcheck EXCEPT
          !.title = Str(<< "Review" >>),
          !.attendees = AttArray(<< Att(Str(<< "Stormy" >>),
                                        Str(FixedEmail)) >>)],
      \* two explicit attendees whose addresses differ in case only
      [Soundcheck EXCEPT
          !.title = Str(<< "Rehearsal" >>),
          !.attendees = AttArray(<< Att(Str(<< "A" >>), Str(<< "a@x.com" >>)),
                                    Att(Str(<< "B" >>), Str(<< "A@x.com" >>))
                                 >>)],
      \* two explicit attendees with the very same address
      [Soundcheck EXCEPT
          !.title = Str(<< "Assembly" >>),
          !.attendees = AttArray(<< Att(Str(<< "A" >>), Str(<< "a@x.com" >>)),
                                    Att(Str(<< "B" >>), Str(<< "a@x.com" >>))
                                 >>)],
      \* malformed, numeric and missing dates
      [Soundcheck EXCEPT !.title = Str(<< "Bump in" >>),
                         !.start = DateStr(D_Bad)],
      [Soundcheck EXCEPT !.title = Str(<< "Bump out" >>),
                         !.end = DateNum(5)],
      [EmptyObj EXCEPT !.attendees = AttArray(<< >>)],
      \* malformed attendee entries
      [Soundcheck EXCEPT
          !.attendees = AttArray(<< Att(Str(<< "A" >>), Str(<< "a@x.com" >>)),
                                    NullAtt >>)],
      [Soundcheck EXCEPT
          !.attendees = AttArray(<< Att(Absent, Str(<< "a@x.com" >>)) >>)],
      \* malformed array elements
      NullElem, NumElem }

RECURSIVE SeqsUpTo(_, _)
SeqsUpTo(S, n) ==
    IF n = 0 THEN { << >> }
    ELSE LET shorter == SeqsUpTo(S, n - 1)
         IN  shorter \cup { Append(q, x) : q \in shorter, x \in S }

\* what aiResponse.text() can deliver: text that is not JSON, JSON that is
\* not an array (a lone object), or a JSON array
AiTexts ==
    { [kind |-> "invalid", elems |-> << >>] }
    \cup { [kind |-> "object", elems |-> << r >>] : r \in { Soundcheck } }
    \cup { [kind |-> "array", elems |-> q] : q \in SeqsUpTo(Records, MaxEvents) }

-----------------------------------------------------------------------------
(* The email handler *)

NoDocument == [has |-> FALSE, lines |-> << >>]

NoEvents == [isArray |-> FALSE, v |-> << >>]

\* try { events = JSON.parse(aiJson) } catch (e) { events = [] }
ParseOrEmpty(text) ==
    IF text.kind = "invalid" THEN [isArray |-> TRUE, v |-> << >>]
    ELSE [isArray |-> text.kind = "array", v |-> text.elems]

\* a bug-seeded guard that forgets Array.isArray
ShouldStop_LengthOnly(ev) == ev.isArray /\ Len(ev.v) = 0

\* !Array.isArray(events) || events.length === 0
ShouldStop(ev) == ~ev.isArray \/ Len(ev.v) = 0

\* a bug-seeded handler table: a failed record is skipped and the rest sent
Handler_SendAnyway(p) ==
    IF p = "mailsend" THEN "sendcatch"
    ELSE IF p = "generate" THEN "send"
    ELSE IF p \in {"read", "run", "text"} THEN "catch"
    ELSE "escape"

\* a bug-seeded handler table: sendEmailWithICS without its try/catch, so a
\* failed send is retried by the caller's handler
Handler_Retry(p) ==
    IF p = "mailsend" THEN "send"
    ELSE IF p \in {"read", "run", "text", "generate"} THEN "catch"
    ELSE "escape"

\* a bug-seeded handler table: generateICS called outside the try block
Handler_GenerateOutsideTry(p) ==
    IF p = "mailsend" THEN "sendcatch"
    ELSE IF p \in {"read", "run", "text"} THEN "catch"
    ELSE "escape"

\* where an exception raised at position p lands: the catch of
\* sendEmailWithICS around MAIL.send, or the catch of email()
Handler(p) ==
    IF p = "mailsend" THEN "sendcatch"
    ELSE IF p \in {"read", "run", "text", "generate"} THEN "catch"
    ELSE "escape"

Raise(p) ==
    /\ thrown' = thrown \cup {p}
    /\ IF Handler(p) = "escape"
       THEN pc' = "done" /\ outcome' = "escaped"
       ELSE pc' = Handler(p) /\ outcome' = outcome

\* a bug-seeded block append that puts the newest block first
AppendBlock_Prepend(acc, block) == block \o acc

\* lines.push(...) of one event's lines / the join of the mapped blocks
AppendBlock(acc, block) == acc \o block

Init ==
    /\ version \in {1, 2}
    /\ mailConfigured \in BOOLEAN
    /\ now \in Clocks
    /\ pc = "read"
    /\ aiJson = [kind |-> "invalid", elems |-> << >>]
    /\ events = NoEvents
    /\ idx = 0
    /\ lines = << >>
    /\ usedUids = {}
    /\ icsContent = NoDocument
    /\ extractionDone = FALSE
    /\ generateCalls = 0
    /\ sendCalls = 0
    /\ sendFailures = 0
    /\ thrown = {}
    /\ outcome = "running"
    /\ escIn = << >>
    /\ escOut = [v1 |-> << >>, v2 |-> << >>]
    /\ escPc = "off"
    /\ fmtIn = << >>
    /\ fmtOut = << >>
    /\ fmtPc = "off"
    /\ envBody = << >>
    /\ envIcs = << >>
    /\ envBoundary = << >>
    /\ envMessage = << >>
    /\ envPc = "off"

\* const rawBody = await streamToString(message.raw)
ReadStream ==
    /\ pc = "read"
    /\ \/ pc' = "run" /\ UNCHANGED << thrown, outcome >>
       \/ Raise("read")
    /\ UNCHANGED << version, mailConfigured, now, aiJson, events, idx, lines,
                    usedUids, icsContent, extractionDone, generateCalls,
                    sendCalls, sendFailures, escVars, fmtVars,
                    envVars >>

\* const aiResponse = await env.AI.run(MODEL_ID, ...)
RunAI ==
    /\ pc = "run"
    /\ \/ pc' = "text" /\ UNCHANGED << thrown, outcome >>
       \/ Raise("run")
    /\ UNCHANGED << version, mailConfigured, now, aiJson, events, idx, lines,
                    usedUids, icsContent, extractionDone, generateCalls,
                    sendCalls, sendFailures, escVars, fmtVars,
                    envVars >>

\* const aiJson = await aiResponse.text()
ReadText ==
    /\ pc = "text"
    /\ \/ /\ \E t \in AiTexts : aiJson' = t
          /\ extractionDone' = TRUE
          /\ pc' = "parse"
          /\ UNCHANGED << thrown, outcome >>
       \/ Raise("text") /\ UNCHANGED << aiJson, extractionDone >>
    /\ UNCHANGED << version, mailConfigured, now, events, idx, lines,
                    usedUids, icsContent, generateCalls, sendCalls,
                    sendFailures, escVars, fmtVars,
                    envVars >>

\* the inner try/catch around JSON.parse
ParseJson ==
    /\ pc = "parse"
    /\ events' = ParseOrEmpty(aiJson)
    /\ pc' = "check"
    /\ UNCHANGED << version, mailConfigured, now, aiJson, idx, lines,
                    usedUids, icsContent, extractionDone, generateCalls,
                    sendCalls, sendFailures, thrown, outcome, escVars, fmtVars,
                    envVars >>

\* the guard: log and return
NoEventsReturn ==
    /\ pc = "check"
    /\ ShouldStop(events)
    /\ pc' = "done"
    /\ outcome' = "returned"
    /\ UNCHANGED << version, mailConfigured, now, aiJson, events, idx, lines,
                    usedUids, icsContent, extractionDone, generateCalls,
                    sendCalls, sendFailures, thrown, escVars, fmtVars,
                    envVars >>

\* the call generateICS(events): the header is laid down
GenerateStart ==
    /\ pc = "check"
    /\ ~ShouldStop(events)
    /\ generateCalls' = generateCalls + 1
    /\ lines' = IF version = 2 THEN Header2 ELSE << >>
    /\ idx' = 1
    /\ pc' = "generate"
    /\ UNCHANGED << version, mailConfigured, now, aiJson, events, usedUids,
                    icsContent, extractionDone, sendCalls, sendFailures,
                    thrown, outcome, escVars, fmtVars,
                    envVars >>

\* one record is rendered, or rendering throws (for...of / map over a
\* value that is not an array throws as well)
GenerateStep ==
    /\ pc = "generate"
    /\ ~events.isArray \/ idx <= Len(events.v)
    /\ IF ~events.isArray
       THEN Raise("generate") /\ UNCHANGED << lines, idx, usedUids >>
       ELSE \E u \in UUIDs \ usedUids :
              LET r == IF version = 2
                       THEN RenderEvent2(events.v[idx], u, now)
                       ELSE RenderEvent1(events.v[idx], idx - 1, now)
              IN  IF r.ok
                  THEN /\ lines' = AppendBlock(lines, r.lines)
                       /\ idx' = idx + 1
                       /\ usedUids' = IF version = 2
                                      THEN usedUids \cup {u} ELSE usedUids
                       /\ pc' = "generate"
                       /\ UNCHANGED << thrown, outcome >>
                  ELSE /\ Raise("generate")
                       /\ UNCHANGED << lines, idx, usedUids >>
    /\ UNCHANGED << version, mailConfigured, now, aiJson, events,
                    icsContent, extractionDone, generateCalls, sendCalls,
                    sendFailures, escVars, fmtVars,
                    envVars >>

\* generateICS returns the joined document
GenerateFinish ==
    /\ pc = "generate"
    /\ events.isArray /\ idx > Len(events.v)
    /\ icsContent' = [has |-> TRUE,
                      lines |-> IF version = 2 THEN lines \o Footer
                                ELSE Header1 \o lines \o Footer]
    /\ pc' = "send"
    /\ UNCHANGED << version, mailConfigured, now, aiJson, events, idx, lines,
                    usedUids, extractionDone, generateCalls, sendCalls,
                    sendFailures, thrown, outcome, escVars, fmtVars,
                    envVars >>

\* sendEmailWithICS up to the transport call: version 1 only logs the
\* message, version 2 returns early when env.MAIL is not configured
SendEmailWithICS ==
    /\ pc = "send"
    /\ IF version = 2 /\ mailConfigured
       THEN pc' = "mailsend" /\ outcome' = outcome
       ELSE pc' = "done" /\ outcome' = "returned"
    /\ UNCHANGED << version, mailConfigured, now, aiJson, events, idx, lines,
                    usedUids, icsContent, extractionDone, generateCalls,
                    sendCalls, sendFailures, thrown, escVars, fmtVars,
                    envVars >>

\* await env.MAIL.send(...): resolves or rejects
MailSend ==
    /\ pc = "mailsend"
    /\ sendCalls' = sendCalls + 1
    /\ \/ pc' = "done" /\ outcome' = "returned" /\ UNCHANGED thrown
       \/ Raise("mailsend")
    /\ UNCHANGED << version, mailConfigured, now, aiJson, events, idx, lines,
                    usedUids, icsContent, extractionDone, generateCalls,
                    sendFailures, escVars, fmtVars,
                    envVars >>

\* catch (e) of sendEmailWithICS: log, return to email(), which returns
SendCatch ==
    /\ pc = "sendcatch"
    /\ sendFailures' = sendFailures + 1
    /\ pc' = "done"
    /\ outcome' = "returned"
    /\ UNCHANGED << version, mailConfigured, now, aiJson, events, idx, lines,
                    usedUids, icsContent, extractionDone, generateCalls,
                    sendCalls, thrown, escVars, fmtVars,
                    envVars >>

\* catch (err) of email(): log and return
EmailCatch ==
    /\ pc = "catch"
    /\ pc' = "done"
    /\ outcome' = "returned"
    /\ UNCHANGED << version, mailConfigured, now, aiJson, events, idx, lines,
                    usedUids, icsContent, extractionDone, generateCalls,
                    sendCalls, sendFailures, thrown, escVars, fmtVars,
                    envVars >>

Next ==
    \/ ReadStream
    \/ RunAI
    \/ ReadText
    \/ ParseJson
    \/ NoEventsReturn
    \/ GenerateStart
    \/ GenerateStep
    \/ GenerateFinish
    \/ SendEmailWithICS
    \/ MailSend
    \/ SendCatch
    \/ EmailCatch

Spec == Init /\ [][Next]_vars

-----------------------------------------------------------------------------
(* escapeICSText on its own: every text up to MaxLen over the characters   *)
(* the function inspects and one ordinary character                        *)

EscAlphabet == { BS, NL, ";", ",", "a" }

EscInit ==
    /\ escIn \in SeqsUpTo(EscAlphabet, MaxLen)
    /\ escOut = [v1 |-> << >>, v2 |-> << >>]
    /\ escPc = "input"
    /\ version = 1
    /\ mailConfigured = FALSE
    /\ now \in Clocks
    /\ pc = "off"
    /\ aiJson = [kind |-> "invalid", elems |-> << >>]
    /\ events = NoEvents
    /\ idx = 0
    /\ lines = << >>
    /\ usedUids = {}
    /\ icsContent = NoDocument
    /\ extractionDone = FALSE
    /\ generateCalls = 0
    /\ sendCalls = 0
    /\ sendFailures = 0
    /\ thrown = {}
    /\ outcome = "running"
    /\ fmtIn = << >>
    /\ fmtOut = << >>
    /\ fmtPc = "off"
    /\ envBody = << >>
    /\ envIcs = << >>
    /\ envBoundary = << >>
    /\ envMessage = << >>
    /\ envPc = "off"

EscapeV1 ==
    /\ escPc = "input"
    /\ escOut' = [escOut EXCEPT !.v1 = escapeICSText1(escIn)]
    /\ escPc' = "v1"
    /\ UNCHANGED << escIn, pipeVars, fmtVars, envVars >>

EscapeV2 ==
    /\ escPc = "v1"
    /\ escOut' = [escOut EXCEPT !.v2 = escapeICSText2(escIn)]
    /\ escPc' = "done"
    /\ UNCHANGED << escIn, pipeVars, fmtVars, envVars >>

EscNext == EscapeV1 \/ EscapeV2

SpecEscape == EscInit /\ [][EscNext]_vars

-----------------------------------------------------------------------------
(* Reading a generated document *)

Positions(doc, p) == { i \in 1..Len(doc) : doc[i].prop = p }

Kth(S, k) == CHOOSE x \in S : Cardinality({ y \in S : y < x }) = k - 1

NumBlocks(doc) == Cardinality(Positions(doc, "BEGIN:VEVENT"))

\* the k-th event block, from its BEGIN:VEVENT to the k-th END:VEVENT
Block(doc, k) ==
    SubSeq(doc, Kth(Positions(doc, "BEGIN:VEVENT"), k),
                Kth(Positions(doc, "END:VEVENT"), k))

PropsOf(block) == [i \in 1..Len(block) |-> block[i].prop]

LinesOf(block, p) == SelectSeq(block, LAMBDA l : l.prop = p)

\* the escaping of section 4.4 as one pass over the characters
RECURSIVE RefEscape(_)
RefEscape(t) ==
    IF t = << >> THEN << >>
    ELSE (CASE Head(t) = BS  -> << BS, BS >>
            [] Head(t) = NL  -> << BS, "n" >>
            [] Head(t) = ";" -> << BS, ";" >>
            [] Head(t) = "," -> << BS, "," >>
            [] OTHER         -> << Head(t) >>)
         \o RefEscape(Tail(t))

\* the escaping of section 4.4 as four passes in the stated order
RefEscapeInOrder(t) ==
    ReplaceAll(ReplaceAll(ReplaceAll(ReplaceAll(t,
        BS, << BS, BS >>), NL, << BS, "n" >>), ";", << BS, ";" >>),
        ",", << BS, "," >>)

-----------------------------------------------------------------------------
(* Claims *)

TitleOrDefault(event) == OrElse(event.title, << "No Title" >>)

\* C1: whenever generateICS returns a document for an array of N records,
\* the document holds exactly N BEGIN:VEVENT and N END:VEVENT lines, the
\* k-th block is properly delimited, and its SUMMARY is the escaped title
\* of the k-th record (no reordering, merging, dropping, deduplication).
C1_OneBlockPerRecordInOrder ==
    icsContent.has =>
      LET doc == icsContent.lines
          n   == Len(events.v)
      IN  /\ NumBlocks(doc) = n
          /\ Cardinality(Positions(doc, "END:VEVENT")) = n
          /\ \A k \in 1..n :
               /\ Kth(Positions(doc, "BEGIN:VEVENT"), k)
                    < Kth(Positions(doc, "END:VEVENT"), k)
               /\ k < n => Kth(Positions(doc, "END:VEVENT"), k)
                             < Kth(Positions(doc, "BEGIN:VEVENT"), k + 1)
               /\ LET sm == LinesOf(Block(doc, k), "SUMMARY")
                  IN  /\ Len(sm) = 1
                      /\ sm[1].value = RefEscape(TitleOrDefault(events.v[k]))

C1_Witness ==
    /\ icsContent.has
    /\ Len(events.v) = 2
    /\ TitleOrDefault(events.v[1]) # TitleOrDefault(events.v[2])

\* C2: once the extraction text has been parsed and it was not JSON or not
\* an array, generateICS and the transport send are never invoked and the
\* handler returns normally.
C2_MalformedExtractionStops ==
    (extractionDone /\ pc # "parse" /\ aiJson.kind # "array") =>
      /\ generateCalls = 0
      /\ sendCalls = 0
      /\ pc \in {"check", "done"}
      /\ pc = "done" => outcome = "returned"

C2_Witness ==
    /\ extractionDone /\ aiJson.kind = "invalid"
    /\ pc = "done" /\ outcome = "returned"
    /\ version = 2 /\ mailConfigured

\* C3: the transport send is reached only after the extraction completed
\* and generateICS returned the whole document (every record rendered, the
\* footer in place); a failure of the read, the extraction or the document
\* construction means no send.
C3_SendOnlyAfterCompleteDocument ==
    /\ (sendCalls > 0 \/ pc = "mailsend") =>
         /\ extractionDone
         /\ generateCalls = 1
         /\ icsContent.has
         /\ Cardinality(Positions(icsContent.lines, "END:VEVENT"))
              = Len(events.v)
         /\ icsContent.lines[Len(icsContent.lines)].prop = "END:VCALENDAR"
    /\ (thrown \cap {"read", "run", "text", "generate"} # {}) =>
         (sendCalls = 0 /\ pc # "mailsend")

C3_Witness ==
    /\ sendCalls = 1 /\ Len(events.v) = 2 /\ icsContent.has

\* C4: whatever fails (stream read, extraction, rendering of a malformed
\* element, transport send), the exception is caught inside the handler:
\* the handler never ends by propagating it.
C4_NoFailureEscapes ==
    /\ outcome # "escaped"
    /\ pc = "done" => outcome = "returned"

C4_Witness ==
    /\ pc = "done" /\ outcome = "returned"
    /\ "generate" \in thrown /\ idx = 2

\* C5: the transport send is invoked at most once per message; a failed
\* send is caught and followed by no further attempt.
C5_AtMostOneSend ==
    /\ sendCalls <= 1
    /\ sendFailures <= sendCalls
    /\ sendFailures = 1 => pc = "done"

C5_Witness ==
    /\ sendFailures = 1 /\ sendCalls = 1 /\ pc = "done"

\* C8: for every text, both editions of escapeICSText return what the
\* four substitutions in the stated order return, which is the one-pass
\* character map: backslash, newline, semicolon and comma are replaced,
\* everything else stays in place, introduced backslashes are not escaped.
C8_EscapeMatchesReference ==
    escPc = "done" =>
      /\ escOut.v1 = RefEscapeInOrder(escIn)
      /\ escOut.v2 = RefEscapeInOrder(escIn)
      /\ escOut.v2 = RefEscape(escIn)

C8_Witness ==
    /\ escPc = "done"
    /\ escIn = << ";", BS, "," >>
    /\ escOut.v2 = << BS, ";", BS, BS, BS, "," >>

FixedEmails == { ATTENDEES[i].email : i \in 1..Len(ATTENDEES) }

\* the explicit attendee entries that carry a name and an address
ExplicitEntries(event) ==
    IF event.kind = "obj" /\ event.attendees.isArray
    THEN { i \in 1..Len(event.attendees.v) :
             /\ event.attendees.v[i].kind = "obj"
             /\ Truthy(event.attendees.v[i].name)
             /\ Truthy(event.attendees.v[i].email) }
    ELSE {}

\* C6: in every rendered event whose explicit attendee list holds an
\* address of the fallback list, that address has exactly one ATTENDEE
\* line and its CN is the explicit entry's name.
C6_ExplicitNameKept ==
    icsContent.has =>
      \A k \in 1..Len(events.v) :
        \A i \in ExplicitEntries(events.v[k]) :
          LET att == events.v[k].attendees.v[i]
              hit == SelectSeq(LinesOf(Block(icsContent.lines, k), "ATTENDEE"),
                               LAMBDA l : l.value = << "mailto:" >>
                                                      \o att.email.v)
          IN  att.email.v \in FixedEmails =>
                /\ Len(hit) = 1
                /\ hit[1].cn = RefEscape(att.name.v)

\* String.prototype.toLowerCase on the sampled addresses
ToLower(tok) == IF tok = "A@x.com" THEN "a@x.com" ELSE tok

LowerText(t) == [i \in 1..Len(t) |-> ToLower(t[i])]

\* C7: within every rendered event block no two ATTENDEE lines carry the
\* same address, addresses compared without regard to letter case.
C7_AddressesUniquePerBlock ==
    icsContent.has =>
      \A k \in 1..Len(events.v) :
        LET al == LinesOf(Block(icsContent.lines, k), "ATTENDEE")
        IN  \A i, j \in 1..Len(al) :
              i # j => LowerText(al[i].value) # LowerText(al[j].value)

NormativeHead ==
    << "BEGIN:VEVENT", "UID", "DTSTAMP", "DTSTART", "DTEND", "SUMMARY",
       "LOCATION", "DESCRIPTION" >>

NormativeTail ==
    << "BEGIN:VALARM", "TRIGGER", "ACTION", "DESCRIPTION", "END:VALARM",
       "END:VEVENT" >>

\* C9: every emitted event block lists its properties in the order UID,
\* DTSTAMP, DTSTART, DTEND, SUMMARY, LOCATION, DESCRIPTION, the ATTENDEE
\* lines, then the VALARM lines TRIGGER, ACTION, DESCRIPTION, END:VEVENT.
C9_NormativePropertyOrder ==
    icsContent.has =>
      \A k \in 1..Len(events.v) :
        LET props == PropsOf(Block(icsContent.lines, k))
            n     == Len(props)
        IN  /\ n >= Len(NormativeHead) + Len(NormativeTail)
            /\ SubSeq(props, 1, Len(NormativeHead)) = NormativeHead
            /\ SubSeq(props, n - Len(NormativeTail) + 1, n) = NormativeTail
            /\ \A i \in (Len(NormativeHead) + 1)..(n - Len(NormativeTail)) :
                 props[i] = "ATTENDEE"

Range(q) == { q[i] : i \in 1..Len(q) }

\* a start / end string that is not a datetime
Malformed(d) == d.kind = "str" /\ d.v # << >> /\ ~IsIsoDateTime(d.v)

\* C10: an event whose start (end) string is not a datetime does not stop
\* the batch, and its block carries a DTSTART (DTEND) line with an empty
\* value.
C10_MalformedDateEmittedEmpty ==
    icsContent.has =>
         \A k \in 1..Len(events.v) :
           /\ Malformed(events.v[k].start) =>
                \E l \in Range(LinesOf(Block(icsContent.lines, k), "DTSTART")) :
                    l.value = << >>
           /\ Malformed(events.v[k].end) =>
                \E l \in Range(LinesOf(Block(icsContent.lines, k), "DTEND")) :
                    l.value = << >>

-----------------------------------------------------------------------------
(* Date modes *)

\* the DTSTAMP, DTSTART and DTEND lines of the event blocks of a document
\* (the DTSTART lines of the VTIMEZONE block are not among them)
EventDateLines(doc, props) ==
    UNION { { l \in Range(Block(doc, k)) : l.prop \in props } :
            k \in 1..NumBlocks(doc) }

EndsInZ(value) == Len(value) > 0 /\ value[Len(value)] = "Z"

HasNoZ(value) == \A i \in 1..Len(value) : value[i] # "Z"

\* a zone-qualified local value: tagged with the zone, no Z in it
ZoneQualified(l) == l.params = TzParam /\ HasNoZ(l.value)

\* a UTC value: no zone tag, trailing Z
UtcValue(l) == l.params = << >> /\ EndsInZ(l.value)

NumTimezoneBlocks(doc) == Cardinality(Positions(doc, "BEGIN:VTIMEZONE"))

AllDateProps == { "DTSTAMP", "DTSTART", "DTEND" }

\* C11 as stated: in every generated document either DTSTAMP, DTSTART and
\* DTEND of every event are all zone-qualified local values and there is
\* exactly one VTIMEZONE block, or all are UTC values with a trailing Z and
\* there is no VTIMEZONE block.
C11_UniformDateMode ==
    icsContent.has =>
      LET doc == icsContent.lines
      IN  \/ /\ \A l \in EventDateLines(doc, AllDateProps) : ZoneQualified(l)
             /\ NumTimezoneBlocks(doc) = 1
          \/ /\ \A l \in EventDateLines(doc, AllDateProps) : UtcValue(l)
             /\ NumTimezoneBlocks(doc) = 0

\* C11 amended: DTSTAMP is a UTC value with a trailing Z in every document;
\* the mode is uniform over DTSTART and DTEND: either every one of them is
\* zone-qualified and there is exactly one VTIMEZONE block, or every one is
\* a UTC value with a trailing Z and there is no VTIMEZONE block.
C11_UniformStartEndMode ==
    icsContent.has =>
      LET doc == icsContent.lines
      IN  /\ \A l \in EventDateLines(doc, {"DTSTAMP"}) : UtcValue(l)
          /\ \/ /\ \A l \in EventDateLines(doc, {"DTSTART", "DTEND"}) :
                      ZoneQualified(l)
                /\ NumTimezoneBlocks(doc) = 1
             \/ /\ \A l \in EventDateLines(doc, {"DTSTART", "DTEND"}) :
                      UtcValue(l)
                /\ NumTimezoneBlocks(doc) = 0

C11_Witness ==
    /\ icsContent.has
    /\ version = 1
    /\ Len(events.v) = 2
    /\ Cardinality(EventDateLines(icsContent.lines, {"DTSTART", "DTEND"})) >= 2
    /\ NumTimezoneBlocks(icsContent.lines) = 1

-----------------------------------------------------------------------------
(* formatDateTimeICS on its own: ISO-8601 datetimes with every kind of    *)
(* timezone suffix                                                         *)

\* the handler and the escapeICSText study at rest
HandlerOff ==
    /\ now \in Clocks
    /\ pc = "off"
    /\ aiJson = [kind |-> "invalid", elems |-> << >>]
    /\ events = NoEvents
    /\ idx = 0
    /\ lines = << >>
    /\ usedUids = {}
    /\ icsContent = NoDocument
    /\ extractionDone = FALSE
    /\ generateCalls = 0
    /\ sendCalls = 0
    /\ sendFailures = 0
    /\ thrown = {}
    /\ outcome = "running"

PipelineOff ==
    /\ version = 1
    /\ mailConfigured = FALSE
    /\ HandlerOff

EscOff ==
    /\ escIn = << >>
    /\ escOut = [v1 |-> << >>, v2 |-> << >>]
    /\ escPc = "off"

EnvOff ==
    /\ envBody = << >>
    /\ envIcs = << >>
    /\ envBoundary = << >>
    /\ envMessage = << >>
    /\ envPc = "off"

\* YYYY-MM-DDTHH:MM:SS
IsoCores ==
    { NatToStr(2025) \o << "-" >> \o pad(mo) \o << "-" >> \o pad(d)
        \o << "T" >> \o pad(h) \o << ":" >> \o pad(mi) \o << ":" >> \o pad(sec) :
      mo \in {6, 12}, d \in {5, 30}, h \in {8, 23}, mi \in {0, 30},
      sec \in {0, 59} }

\* no suffix, Z, +HH:MM, -HH:MM
IsoSuffixes ==
    { << >>, << "Z" >> }
    \cup { << sign >> \o pad(hh) \o << ":" >> \o pad(mm) :
           sign \in {"+", "-"}, hh \in {5, 10}, mm \in {0, 30} }

IsoInputs == { c \o x : c \in IsoCores, x \in IsoSuffixes }

FmtInit ==
    /\ fmtIn \in IsoInputs
    /\ fmtOut = << >>
    /\ fmtPc = "input"
    /\ PipelineOff /\ EscOff /\ EnvOff

FormatDateTimeICS ==
    /\ fmtPc = "input"
    /\ fmtOut' = formatDateTimeICS(fmtIn)
    /\ fmtPc' = "done"
    /\ UNCHANGED << fmtIn, pipeVars, escVars, envVars >>

FmtNext == FormatDateTimeICS

SpecFormat == FmtInit /\ [][FmtNext]_vars

\* the digits of YYYY-MM-DDTHH:MM:SS, read off by position
BareDigits(str) ==
    SubSeq(str, 1, 4) \o SubSeq(str, 6, 7) \o SubSeq(str, 9, 13)
      \o SubSeq(str, 15, 16) \o SubSeq(str, 18, 19)

\* C13: formatDateTimeICS maps every YYYY-MM-DDTHH:MM:SS with no suffix,
\* Z, +HH:MM or -HH:MM to exactly YYYYMMDDTHHMMSS, nothing of the suffix
\* left.
C13_SuffixStripped ==
    fmtPc = "done" => fmtOut = BareDigits(fmtIn)

-----------------------------------------------------------------------------
(* sendEmailWithICS on its own: any body text, any document text          *)

FmtOff ==
    /\ fmtIn = << >>
    /\ fmtOut = << >>
    /\ fmtPc = "off"

\* the fixed head of the boundary: `----=_Part_` (version 1, line 306),
\* `----boundary_` (version 2, line 595)
BoundaryPrefix(ver) ==
    IF ver = 1 THEN << "----=_Part_" >> ELSE << "----boundary_" >>

\* what Math.random().toString(36).substring(2, 15) can return (the empty
\* string when Math.random() returns 0)
Base36Tails == { << >>, << "i" >>, << "k2j9x" >> }

\* the random tail of the boundary
RandomTails(ver) ==
    IF ver = 1 THEN Base36Tails ELSE { << u >> : u \in UUIDs }

\* a bug-seeded boundary without the fixed head
MakeBoundary_NoPrefix(ver, tail) == tail

\* const boundary = `...${random}`
MakeBoundary(ver, tail) == BoundaryPrefix(ver) \o tail

\* version 1, lines 308-323: the lines of mailBody
MailBody1(boundary, body, ics) ==
    << << "--" >> \o boundary,
       << "Content-Type: text/plain; charset=\"utf-8\"" >>,
       << "Content-Transfer-Encoding: 7bit" >>,
       << >>,
       body,
       << >>,
       << "--" >> \o boundary,
       << "Content-Type: text/calendar; method=REQUEST; charset=\"utf-8\"" >>,
       << "Content-Transfer-Encoding: 7bit" >>,
       << "Content-Disposition: attachment; filename=\"invite.ics\"" >>,
       << >>,
       ics,
       << >>,
       << "--" >> \o boundary \o << "--" >> >>

\* version 2, lines 596-616: the lines of message
Message2(to, subject, boundary, body, ics) ==
    << << "To: " >> \o to,
       << "Subject: " >> \o subject,
       << "MIME-Version: 1.0" >>,
       << "Content-Type: multipart/mixed; boundary=\"" >> \o boundary
           \o << "\"" >>,
       << >>,
       << "--" >> \o boundary,
       << "Content-Type: text/plain; charset=\"UTF-8\"" >>,
       << "Content-Transfer-Encoding: 7bit" >>,
       << >>,
       body,
       << >>,
       << "--" >> \o boundary,
       << "Content-Type: text/calendar; method=PUBLISH; charset=\"UTF-8\"" >>,
       << "Content-Transfer-Encoding: 7bit" >>,
       << "Content-Disposition: attachment; filename=\"invite.ics\"" >>,
       << >>,
       ics,
       << >>,
       << "--" >> \o boundary \o << "--" >> >>

\* the arguments email() passes, lines 445-446
MailTo == << "storm.ellis@hutchins.tas.edu.au" >>

MailSubject == << "Extracted AV Events from Email - Calendar Invites" >>

\* the texts of a part: boundary heads, random tails and other text
EnvAlphabet == { "----boundary_", "----=_Part_", "uuid-a", "i", "x" }

PartTexts == SeqsUpTo(EnvAlphabet, MaxPartLen)

EnvInit ==
    /\ version \in {1, 2}
    /\ mailConfigured \in BOOLEAN
    /\ envBody \in PartTexts
    /\ envIcs \in PartTexts
    /\ envBoundary = << >>
    /\ envMessage = << >>
    /\ envPc = "call"
    /\ HandlerOff /\ EscOff /\ FmtOff

\* version 2, lines 590-593: no MAIL binding, log and return
EnvNotConfigured ==
    /\ envPc = "call"
    /\ version = 2 /\ ~mailConfigured
    /\ envPc' = "returned"
    /\ UNCHANGED << envBody, envIcs, envBoundary, envMessage, pipeVars,
                    escVars, fmtVars >>

\* the boundary is drawn and the message is put together
EnvAssemble ==
    /\ envPc = "call"
    /\ version = 1 \/ mailConfigured
    /\ \E tail \in RandomTails(version) :
         LET boundary == MakeBoundary(version, tail)
         IN  /\ envBoundary' = boundary
             /\ envMessage' =
                  IF version = 1
                  THEN MailBody1(boundary, envBody, envIcs)
                  ELSE Message2(MailTo, MailSubject, boundary, envBody, envIcs)
    /\ envPc' = "assembled"
    /\ UNCHANGED << envBody, envIcs, pipeVars, escVars, fmtVars >>

\* version 1 logs the message; version 2 awaits MAIL.send, which resolves
\* or rejects into the catch; either way the function returns
EnvDispatch ==
    /\ envPc = "assembled"
    /\ envPc' = "returned"
    /\ UNCHANGED << envBody, envIcs, envBoundary, envMessage, pipeVars,
                    escVars, fmtVars >>

EnvNext == EnvNotConfigured \/ EnvAssemble \/ EnvDispatch

SpecEnvelope == EnvInit /\ [][EnvNext]_vars

\* needle occurs verbatim inside hay
Occurs(needle, hay) ==
    \E i \in 1..(Len(hay) - Len(needle) + 1) :
        SubSeq(hay, i, i + Len(needle) - 1) = needle

\* the two parts as they stand in the assembled message
BodyPart == envMessage[IF version = 1 THEN 5 ELSE 10]

IcsPart == envMessage[IF version = 1 THEN 12 ELSE 17]

\* C12 as stated: in every assembled message the boundary token occurs
\* neither inside the plain-text body part nor inside the document part,
\* whatever the body text and the document content.
C12_BoundaryNeverInParts ==
    envPc = "assembled" =>
      /\ ~Occurs(envBoundary, BodyPart)
      /\ ~Occurs(envBoundary, IcsPart)

\* C12 amended: in every assembled message the boundary token occurs
\* inside neither part, for body text and document content that do not
\* themselves contain the boundary's fixed head.
C12_BoundaryOnlyWhereHeadIs ==
    envPc = "assembled" =>
      /\ BodyPart = envBody /\ IcsPart = envIcs
      /\ \A part \in { BodyPart, IcsPart } :
           ~Occurs(BoundaryPrefix(version), part)
             => ~Occurs(envBoundary, part)

C12_Witness ==
    /\ envPc = "assembled"
    /\ version = 2
    /\ envBoundary = << "----boundary_", "uuid-a" >>
    /\ IcsPart = << "x", "uuid-a" >>
    /\ BodyPart = << "x" >>

====
